---- MODULE Spec2Model ----
(***************************************************************************)
(* Model of opcua/client/async_ua_client.py: the request multiplexer of    *)
(* UASocketProtocol (request ids, the pending map _callbackmap, dispatch   *)
(* of inbound messages by _receive/_call_callback, the local timeouts of   *)
(* asyncio.wait_for) and the subscription/publish part of UaClient.        *)
(*                                                                         *)
(* The event loop is single threaded: every action below is one run of a   *)
(* handler between two suspension points.  A future keeps its state after  *)
(* it left _callbackmap, so futures are kept in the sequence `futures`, in *)
(* creation order, and _callbackmap maps a request id to an index of it.   *)
(* Done-callbacks are not run by set_result/cancel: asyncio schedules them *)
(* with call_soon, which is the queue `ready`.                             *)
(*                                                                         *)
(* Spec runs _receive once for every inbound message, which is what        *)
(* _call_callback is written for; how data_received starts _receive is not *)
(* part of Spec.  SpecWhole is the program with data_received as the code  *)
(* has it.  SpecService is Spec's subscription and session services with   *)
(* the answers they are written for, and SpecSend the send path alone,     *)
(* with what it writes to the transport.  SpecSession has create_session   *)
(* and the requests made around it, and SpecRead is read() on the segments *)
(* it is given.                                                            *)
(***************************************************************************)
EXTENDS Integers, Sequences, FiniteSets, TLC

\* Bounds of the model.
MaxFutures == 2
MaxReplies == 2
MaxSubscriptionId == 1
MaxChunks == 2
MaxEncodeFailures == 1
MaxStream == 4
MaxSize == 3

VARIABLES
    transport,          \* self.transport: "None" or "transport"
    socket,             \* the asyncio transport: unconnected, connected, closing, closed
    _request_id,        \* self._request_id
    _request_handle,    \* self._request_handle
    _callbackmap,       \* self._callbackmap: request id -> index in futures
    futures,            \* every asyncio.Future made by a send, in creation order
    inbound,            \* messages the server has sent, not yet read by _receive
    nreplies,           \* how many messages the server has sent
    ready,              \* done-callbacks scheduled by call_soon (indices in futures)
    _publishcallbacks,  \* UaClient._publishcallbacks: the registered subscription ids
    channel,            \* the token committed by self._connection.set_channel
    raised,             \* the exception that left the last run of _receive or of
                        \* a done-callback ("None": it returned)
    notified,           \* the subscription ids whose user callback was invoked, in order
    delete_call,        \* the delete_subscriptions call: its ids and its coroutine
    wire,               \* the chunks written to the transport (kept by SpecSend)
    encode_failures,    \* how many sends failed in struct_to_binary (kept by SpecSend)
    receive_buffer,     \* self.receive_buffer, the asyncio.Queue
    is_receiving,       \* self.is_receiving
    _leftover_chunk,    \* self._leftover_chunk; << >> is None (read only tests its truth)
    reading,            \* the call of read(size): where it is, its locals size and
                        \* data, the size asked for and the bytes earlier calls returned
    authentication_token,   \* self.authentication_token (NullToken: ua.NodeId())
    session_call        \* the create_session call: none, or how its coroutine ended

\* What the send path leaves on the transport, and the rest of the state added to
\* the multiplexer's.
sendlog == <<wire, encode_failures>>

\* The state of read() and of the session.
readvars == <<_leftover_chunk, reading>>

sessionvars == <<authentication_token, session_call>>

rest == <<notified, delete_call, receive_buffer, is_receiving, readvars, sessionvars>>

vars == <<transport, socket, _request_id, _request_handle, _callbackmap, futures,
          inbound, nreplies, ready, _publishcallbacks, channel, raised, sendlog, rest>>

\* ---------------------------------------------------------------- data

EmptyMap == [k \in {} |-> 0]

MapPut(map, k, v) == [x \in (DOMAIN map) \cup {k} |-> IF x = k THEN v ELSE map[x]]

MapPop(map, k) == [x \in (DOMAIN map) \ {k} |-> map[x]]

\* ua.NodeId(), the token of a protocol without session.
NullToken == 0

\* read() before its first call.
NotReading == [pc |-> "idle", size |-> 0, data |-> << >>, requested |-> 0, returned |-> 0]

NoBody == [typeid |-> "NoBody", status |-> "Good", handle |-> 0, sid |-> 0]

\* Requests without a callback (the facade's services), and the others.
ServiceKinds == {"Read"}

\* asyncio.Future(), as _send_request and send_hello make it.
\*   rid, handle  the request id it is registered under, the RequestHandle sent
\*   callback     the done-callback added to it
\*   written      whether the frame reached the wire
\*   caller       the coroutine that made it: none (not suspended on it),
\*                waiting (in wait_for), returned, or the exception it ended with
\*   resp         create_subscription's resp_fut
NewFuture(rid, handle, kind, callback, written) ==
    [rid |-> rid, handle |-> handle, kind |-> kind, callback |-> callback,
     state |-> "PENDING", result |-> NoBody, written |-> written,
     caller |-> "none", resp |-> "none"]

Init ==
    /\ transport = "None"
    /\ socket = "unconnected"
    /\ _request_id = 0
    /\ _request_handle = 0
    /\ _callbackmap = EmptyMap
    /\ futures = << >>
    /\ inbound = << >>
    /\ nreplies = 0
    /\ ready = << >>
    /\ _publishcallbacks = {}
    /\ channel = 0
    /\ raised = "None"
    /\ notified = << >>
    /\ delete_call = [ids |-> {}, caller |-> "none"]
    /\ wire = << >>
    /\ encode_failures = 0
    /\ receive_buffer = << >>
    /\ is_receiving = FALSE
    /\ _leftover_chunk = << >>
    /\ reading = NotReading
    /\ authentication_token = NullToken
    /\ session_call = "none"

\* ------------------------------------------------------- the transport

connection_made ==
    /\ socket = "unconnected"
    /\ transport' = "transport"
    /\ socket' = "connected"
    /\ UNCHANGED <<sendlog, rest>>
    /\ UNCHANGED <<_request_id, _request_handle, _callbackmap, futures, inbound,
                   nreplies, ready, _publishcallbacks, channel, raised>>

connection_lost ==
    /\ socket \in {"connected", "closing"}
    /\ transport' = "None"
    /\ socket' = "closed"
    /\ UNCHANGED <<sendlog, rest>>
    /\ UNCHANGED <<_request_id, _request_handle, _callbackmap, futures, inbound,
                   nreplies, ready, _publishcallbacks, channel, raised>>

\* disconnect_socket: self.transport.close() (AttributeError with no transport).
disconnect_socket ==
    /\ socket # "unconnected"
    /\ socket' = IF transport = "None" THEN socket ELSE "closing"
    /\ UNCHANGED <<sendlog, rest>>
    /\ UNCHANGED <<transport, _request_id, _request_handle, _callbackmap, futures,
                   inbound, nreplies, ready, _publishcallbacks, channel, raised>>

\* ------------------------------------------------------------- sending

\* The handle _create_request_header puts in the header (the counter moves to it).
_create_request_header == _request_handle + 1

\* RollbackHandle with the decrement left out: the handle of a request that failed
\* to encode stays taken.
RollbackHandle_None(handle) == handle

\* The except branch of _send_request: self._request_handle -= 1.
RollbackHandle(handle) == handle - 1

\* NextRequestId with the increment of line 85 left out: the counter is not advanced.
NextRequestId_Stuck == _request_id

\* The id _send_request gives the request.
NextRequestId == _request_id + 1

\* transport.write(msg): the frame reaches the wire of a connected socket; a
\* closing transport drops it.
Written == transport # "None" /\ socket = "connected"

\* _send_request(request, callback, ...): what it leaves behind.  encode_ok is
\* whether struct_to_binary(request) succeeds.  exc is the exception it raises:
\* the encoder's, or AttributeError from self.transport.write with no transport,
\* which comes after the id is taken and the future registered.
_send_request(kind, callback, encode_ok) ==
    LET handle == _create_request_header
        id == NextRequestId
        fut == Len(futures) + 1
    IN  IF ~encode_ok
          THEN [request_handle |-> RollbackHandle(handle), request_id |-> _request_id,
                callbackmap |-> _callbackmap, futures |-> futures,
                future |-> 0, exc |-> "EncodeError"]
          ELSE [request_handle |-> handle, request_id |-> id,
                callbackmap |-> MapPut(_callbackmap, id, fut),
                futures |-> Append(futures, NewFuture(id, handle, kind, callback, Written)),
                future |-> fut,
                exc |-> IF transport = "None" THEN "AttributeError" ELSE "None"]

\* A send and what its coroutine does next.  caller is how the coroutine goes on
\* after _send_request returned (see NewFuture), resp the state of the resp_fut it
\* made; when _send_request raises, the coroutine ends with that exception.
Send(kind, callback, encode_ok, caller, resp) ==
    /\ socket # "unconnected"
    /\ Len(futures) < MaxFutures
    /\ LET r == _send_request(kind, callback, encode_ok)
       IN  /\ _request_handle' = r.request_handle
           /\ _request_id' = r.request_id
           /\ _callbackmap' = r.callbackmap
           /\ futures' = IF r.future = 0 THEN r.futures
                         ELSE IF r.exc # "None"
                           THEN [r.futures EXCEPT ![r.future].caller = r.exc]
                           ELSE [r.futures EXCEPT ![r.future].caller = caller,
                                                  ![r.future].resp = resp]
    /\ UNCHANGED <<sendlog, rest>>
    /\ UNCHANGED <<transport, socket, inbound, nreplies, ready, _publishcallbacks,
                   channel, raised>>

\* send_request(request) without a callback: after _send_request it evaluates
\* future.result() on the future just made, which is pending, so it raises
\* InvalidStateError before wait_for is reached.
send_request(kind) == \E encode_ok \in BOOLEAN :
    Send(kind, "None", encode_ok, "InvalidStateError", "none")

\* publish(acks): send_request of a PublishRequest with _call_publish_callback as
\* callback; send_request returns once the request is written.
publish == \E encode_ok \in BOOLEAN :
    Send("Publish", "_call_publish_callback", encode_ok, "returned", "none")

\* create_subscription(params, callback): send_request with
\* _create_subscription_callback, then it waits for resp_fut in wait_for.
create_subscription == \E encode_ok \in BOOLEAN :
    Send("CreateSubscription", "_create_subscription_callback", encode_ok,
         "waiting", "PENDING")

\* send_hello: the future is registered under id 0, the frame written, and the
\* caller waits for the future in wait_for.
send_hello ==
    /\ socket # "unconnected"
    /\ Len(futures) < MaxFutures
    /\ LET fut == Len(futures) + 1
       IN  /\ _callbackmap' = MapPut(_callbackmap, 0, fut)
           /\ futures' = Append(futures,
                  [NewFuture(0, 0, "Hello", "None", Written) EXCEPT
                      !.caller = IF transport = "None" THEN "AttributeError"
                                 ELSE "waiting"])
    /\ UNCHANGED <<sendlog, rest>>
    /\ UNCHANGED <<transport, socket, _request_id, _request_handle, inbound, nreplies,
                   ready, _publishcallbacks, channel, raised>>

\* open_secure_channel, up to its await: _send_request, then wait_for(future).
open_secure_channel == \E encode_ok \in BOOLEAN :
    Send("OpenSecureChannel", "None", encode_ok, "waiting", "none")

\* future.cancel(): a pending future becomes cancelled and its done-callbacks are
\* scheduled; a done future is left alone.
Cancel(fs, f) ==
    IF fs[f].state = "PENDING" THEN [fs EXCEPT ![f].state = "CANCELLED"] ELSE fs

\* close_secure_channel: _send_request, future.cancel(), _callbackmap.clear().
close_secure_channel ==
    /\ socket # "unconnected"
    /\ Len(futures) < MaxFutures
    /\ \E encode_ok \in BOOLEAN :
        LET r == _send_request("CloseSecureChannel", "None", encode_ok)
        IN  /\ _request_handle' = r.request_handle
            /\ _request_id' = r.request_id
            /\ IF r.exc = "None"
                 THEN /\ futures' = [Cancel(r.futures, r.future) EXCEPT
                                       ![r.future].caller = "returned"]
                      /\ _callbackmap' = EmptyMap
                 ELSE /\ futures' = IF r.future = 0 THEN r.futures
                                    ELSE [r.futures EXCEPT ![r.future].caller = r.exc]
                      /\ _callbackmap' = r.callbackmap
    /\ UNCHANGED <<sendlog, rest>>
    /\ UNCHANGED <<transport, socket, inbound, nreplies, ready, _publishcallbacks,
                   channel, raised>>

\* ----------------------------------------------------------- the server

\* The subscription ids the server gives out.
SubscriptionIds == 1..MaxSubscriptionId

\* The bodies a server answers a request with, the RequestHandle of the request
\* echoed in the header: the response of the request's type with a good result
\* (and, for the subscription services, a subscription id); the response with a
\* bad result in its header, for the requests whose caller checks that header;
\* a ServiceFault, for the services and for Publish.
ResponseBodies(f) ==
    { [typeid |-> "Response", status |-> "Good", handle |-> f.handle,
       sid |-> IF f.kind \in {"CreateSubscription", "Publish"} THEN sid ELSE 0]
        : sid \in SubscriptionIds }
    \cup (IF f.kind \in {"OpenSecureChannel", "CreateSubscription"}
            THEN { [typeid |-> "Response", status |-> "BadTimeout",
                    handle |-> f.handle, sid |-> 0] }
            ELSE {})
    \cup (IF f.kind \in ServiceKinds \cup {"Publish"}
            THEN { [typeid |-> "ServiceFault", status |-> "BadTimeout",
                    handle |-> f.handle, sid |-> 0] }
            ELSE {})

\* What receive_from_socket returns for the frames the server sends in answer to
\* a written request: an Acknowledge or an ErrorMessage for a Hello, else a
\* Message with the request's id, or None for the intermediate chunk of a
\* service response.
Answers(f) ==
    IF f.kind = "Hello"
      THEN { [type |-> t, request_id |-> 0,
              body |-> [typeid |-> t, status |-> "Good", handle |-> 0, sid |-> 0]]
               : t \in {"Acknowledge", "ErrorMessage"} }
      ELSE { [type |-> "Message", request_id |-> f.rid, body |-> b]
               : b \in ResponseBodies(f) }
           \cup (IF f.kind \in ServiceKinds
                   THEN { [type |-> "None", request_id |-> f.rid, body |-> NoBody] }
                   ELSE {})

\* The server answers any request that reached it, in any order, and may answer
\* one twice.
ServerSend ==
    /\ socket = "connected"
    /\ nreplies < MaxReplies
    /\ \E i \in 1..Len(futures) :
         /\ futures[i].written
         /\ \E msg \in Answers(futures[i]) : inbound' = Append(inbound, msg)
    /\ nreplies' = nreplies + 1
    /\ UNCHANGED <<sendlog, rest>>
    /\ UNCHANGED <<transport, socket, _request_id, _request_handle, _callbackmap,
                   futures, ready, _publishcallbacks, channel, raised>>

\* ----------------------------------------------------------- receiving

\* PopKey as a first-in-first-out dispatch would have it: the oldest pending entry
\* is taken, as if the server answered in the order of the requests.
PopKey_Oldest(request_id) ==
    IF DOMAIN _callbackmap = {} THEN request_id
    ELSE CHOOSE k \in DOMAIN _callbackmap : \A j \in DOMAIN _callbackmap : k <= j

\* The key _call_callback pops for a message.
PopKey(request_id) == request_id

\* _call_callback(request_id, body): pops the future registered under request_id
\* and sets its result.  With no entry it raises UaError; set_result on a future
\* that is not pending (a cancelled one) raises InvalidStateError, the entry
\* already popped.  A future with a done-callback is scheduled with call_soon.
_call_callback(request_id, body) ==
    LET key == PopKey(request_id)
    IN  IF key \notin DOMAIN _callbackmap
          THEN [callbackmap |-> _callbackmap, futures |-> futures, ready |-> ready,
                exc |-> "UaError"]
          ELSE LET f == _callbackmap[key]
               IN  IF futures[f].state # "PENDING"
                     THEN [callbackmap |-> MapPop(_callbackmap, key),
                           futures |-> futures, ready |-> ready,
                           exc |-> "InvalidStateError"]
                     ELSE [callbackmap |-> MapPop(_callbackmap, key),
                           futures |-> [futures EXCEPT ![f].state = "FINISHED",
                                                       ![f].result = body],
                           ready |-> IF futures[f].callback # "None"
                                       THEN Append(ready, f) ELSE ready,
                           exc |-> "None"]

\* _receive: one message from receive_from_socket, dispatched by its type.
_receive ==
    /\ inbound # << >>
    /\ LET msg == Head(inbound)
           none == [callbackmap |-> _callbackmap, futures |-> futures,
                    ready |-> ready, exc |-> "None"]
           r == IF msg.type = "None" THEN none
                ELSE IF msg.type = "Message"
                  THEN _call_callback(msg.request_id, msg.body)
                ELSE IF msg.type = "Acknowledge" THEN _call_callback(0, msg.body)
                ELSE IF msg.type = "ErrorMessage" THEN none
                ELSE [none EXCEPT !.exc = "UaError"]
       IN  /\ _callbackmap' = r.callbackmap
           /\ futures' = r.futures
           /\ ready' = r.ready
           /\ raised' = r.exc
    /\ inbound' = Tail(inbound)
    /\ UNCHANGED <<sendlog, rest>>
    /\ UNCHANGED <<transport, socket, _request_id, _request_handle, nreplies,
                   _publishcallbacks, channel>>

\* ------------------------------------------------- waiting for a future

\* The future a suspended caller waits for is resp_fut in create_subscription,
\* else the request's own future.
WaitsForResp(f) == f.resp # "none"

\* asyncio.wait_for(future, self.timeout) expires: the future waited for is
\* cancelled and the caller ends with TimeoutError.  _callbackmap is not touched.
Timeout(i) ==
    /\ futures[i].caller = "waiting"
    /\ IF WaitsForResp(futures[i])
         THEN /\ futures[i].resp = "PENDING"
              /\ futures' = [futures EXCEPT ![i].resp = "CANCELLED",
                                            ![i].caller = "TimeoutError"]
         ELSE /\ futures[i].state = "PENDING"
              /\ futures' = [futures EXCEPT ![i].state = "CANCELLED",
                                            ![i].caller = "TimeoutError"]
    /\ UNCHANGED <<sendlog, rest>>
    /\ UNCHANGED <<transport, socket, _request_id, _request_handle, _callbackmap,
                   inbound, nreplies, ready, _publishcallbacks, channel, raised>>

\* ServiceResult.check() of a decoded response: a ServiceFault does not decode as
\* the response type expected, and a bad status raises.
ResultGood(body) == body.typeid = "Response" /\ body.status = "Good"

\* The caller resumes when the future it waits for is done: send_hello returns
\* the Acknowledge, create_subscription resp_fut's result, and open_secure_channel
\* checks the service result and commits the channel with set_channel (the
\* parameters committed are named by the id of the request that opened them).
Resume(i) ==
    /\ futures[i].caller = "waiting"
    /\ IF WaitsForResp(futures[i])
         THEN futures[i].resp = "FINISHED"
         ELSE futures[i].state = "FINISHED"
    /\ LET ok == futures[i].kind # "OpenSecureChannel" \/ ResultGood(futures[i].result)
       IN  /\ futures' = [futures EXCEPT
                            ![i].caller = IF ok THEN "returned" ELSE "ServiceError"]
           /\ channel' = IF ok /\ futures[i].kind = "OpenSecureChannel"
                           THEN futures[i].rid ELSE channel
    /\ UNCHANGED <<sendlog, rest>>
    /\ UNCHANGED <<transport, socket, _request_id, _request_handle, _callbackmap,
                   inbound, nreplies, ready, _publishcallbacks, raised>>

\* ------------------------------------------------------- done-callbacks

\* _create_subscription_callback(pub_callback, resp_fut, data_fut): registers the
\* subscription of a good response and sets resp_fut; a bad one raises before
\* either, and resp_fut cancelled by the timeout raises after the registration.
_create_subscription_callback(f) ==
    LET body == futures[f].result
    IN  IF ~ResultGood(body)
          THEN [publishcallbacks |-> _publishcallbacks, futures |-> futures,
                notified |-> notified, exc |-> "ServiceError"]
          ELSE IF futures[f].resp # "PENDING"
            THEN [publishcallbacks |-> _publishcallbacks \cup {body.sid},
                  futures |-> futures, notified |-> notified,
                  exc |-> "InvalidStateError"]
            ELSE [publishcallbacks |-> _publishcallbacks \cup {body.sid},
                  futures |-> [futures EXCEPT ![f].resp = "FINISHED"],
                  notified |-> notified, exc |-> "None"]

\* _call_publish_callback as a handler that gives up the subscriptions when a
\* Publish ends with a fault.
_call_publish_callback_Unregister(f) ==
    [publishcallbacks |-> IF futures[f].result.typeid = "ServiceFault"
                            THEN {} ELSE _publishcallbacks,
     futures |-> futures, notified |-> notified, exc |-> "None"]

\* _call_publish_callback(future) as a done-callback: it is a coroutine
\* function, so the call makes a coroutine object that nothing awaits and none
\* of its body runs.
_call_publish_callback(f) ==
    [publishcallbacks |-> _publishcallbacks, futures |-> futures,
     notified |-> notified, exc |-> "None"]

\* The event loop runs the next scheduled done-callback.
RunCallback ==
    /\ ready # << >>
    /\ LET f == Head(ready)
           r == IF futures[f].callback = "_create_subscription_callback"
                  THEN _create_subscription_callback(f)
                  ELSE _call_publish_callback(f)
       IN  /\ _publishcallbacks' = r.publishcallbacks
           /\ futures' = r.futures
           /\ notified' = r.notified
           /\ raised' = r.exc
    /\ ready' = Tail(ready)
    /\ UNCHANGED <<sendlog, delete_call, receive_buffer, is_receiving, readvars, sessionvars>>
    /\ UNCHANGED <<transport, socket, _request_id, _request_handle, _callbackmap,
                   inbound, nreplies, channel>>

Next ==
    \/ connection_made
    \/ connection_lost
    \/ disconnect_socket
    \/ \E kind \in ServiceKinds : send_request(kind)
    \/ publish
    \/ create_subscription
    \/ send_hello
    \/ open_secure_channel
    \/ close_secure_channel
    \/ ServerSend
    \/ _receive
    \/ \E i \in 1..Len(futures) : Timeout(i)
    \/ \E i \in 1..Len(futures) : Resume(i)
    \/ RunCallback

Spec == Init /\ [][Next]_vars

\* ------------------------------------- subscription and session services

\* close_session(deletesubscriptions): send_request of a CloseSessionRequest
\* without a callback; the decoding and the check that tolerates BadSessionClosed
\* come after send_request has returned the data.
close_session == send_request("CloseSession")

\* The lists of subscription ids delete_subscriptions is called with: one id, a
\* registered one or one the server never gave out, or all of them.
DeleteIds ==
    { {sid} : sid \in 1..(MaxSubscriptionId + 1) } \cup { 1..(MaxSubscriptionId + 1) }

\* delete_subscriptions(subscriptionids): it makes resp_fut and the callback, calls
\* send_request without awaiting it (the coroutine object is dropped, so
\* _send_request does not run and no request is made), and waits for resp_fut.
delete_subscriptions(subscriptionids) ==
    /\ socket # "unconnected"
    /\ delete_call.caller = "none"
    /\ delete_call' = [ids |-> subscriptionids, caller |-> "waiting"]
    /\ UNCHANGED <<sendlog, notified, receive_buffer, is_receiving, readvars, sessionvars>>
    /\ UNCHANGED <<transport, socket, _request_id, _request_handle, _callbackmap, futures,
                   inbound, nreplies, ready, _publishcallbacks, channel, raised>>

\* wait_for(resp_fut, self._timeout) of delete_subscriptions expires: nothing
\* else can end that wait, as nothing holds resp_fut's callback.
delete_subscriptions_timeout ==
    /\ delete_call.caller = "waiting"
    /\ delete_call' = [delete_call EXCEPT !.caller = "TimeoutError"]
    /\ UNCHANGED <<sendlog, notified, receive_buffer, is_receiving, readvars, sessionvars>>
    /\ UNCHANGED <<transport, socket, _request_id, _request_handle, _callbackmap, futures,
                   inbound, nreplies, ready, _publishcallbacks, channel, raised>>

\* The bodies a server answers the subscription and session services with: a
\* Publish gets a notification of a subscription or, with no subscription left, a
\* ServiceFault with BadNoSubscription; a CloseSession gets its response, good or
\* with BadSessionClosed or another bad result in the header, or a ServiceFault
\* with BadSessionClosed.
ServiceBodies(f) ==
    IF f.kind = "CloseSession"
      THEN { [typeid |-> "Response", status |-> st, handle |-> f.handle, sid |-> 0]
               : st \in {"Good", "BadSessionClosed", "BadTimeout"} }
           \cup { [typeid |-> "ServiceFault", status |-> "BadSessionClosed",
                   handle |-> f.handle, sid |-> 0] }
      ELSE { [typeid |-> "Response", status |-> "Good", handle |-> f.handle, sid |-> sid]
               : sid \in SubscriptionIds }
           \cup (IF f.kind = "Publish"
                   THEN { [typeid |-> "ServiceFault", status |-> "BadNoSubscription",
                           handle |-> f.handle, sid |-> 0] }
                   ELSE {})

\* The server answers a request that reached it.
ServiceServerSend ==
    /\ socket = "connected"
    /\ nreplies < MaxReplies
    /\ \E i \in 1..Len(futures) :
         /\ futures[i].written
         /\ \E b \in ServiceBodies(futures[i]) :
              inbound' = Append(inbound, [type |-> "Message",
                                          request_id |-> futures[i].rid, body |-> b])
    /\ nreplies' = nreplies + 1
    /\ UNCHANGED <<sendlog, rest>>
    /\ UNCHANGED <<transport, socket, _request_id, _request_handle, _callbackmap,
                   futures, ready, _publishcallbacks, channel, raised>>

ServiceNext ==
    \/ connection_made
    \/ connection_lost
    \/ publish
    \/ create_subscription
    \/ close_session
    \/ \E subscriptionids \in DeleteIds : delete_subscriptions(subscriptionids)
    \/ delete_subscriptions_timeout
    \/ ServiceServerSend
    \/ _receive
    \/ \E i \in 1..Len(futures) : Timeout(i)
    \/ \E i \in 1..Len(futures) : Resume(i)
    \/ RunCallback

SpecService == Init /\ [][ServiceNext]_vars

\* ------------------------------------------------------- the send path

\* message_to_binary(binreq, message_type, request_id): the chunks of one message,
\* in order, each with the request id, the last one marked final.  handle is the
\* RequestHandle inside the encoded request.
message_to_binary(request_id, handle, nchunks) ==
    [k \in 1..nchunks |-> [request_id |-> request_id, handle |-> handle,
                           chunk |-> k, final |-> (k = nchunks)]]

\* WriteMessage with the first chunk written ahead of what the transport still
\* holds, the rest after it.
WriteMessage_Interleaved(w, msg) == <<Head(msg)>> \o w \o Tail(msg)

\* self.transport.write(msg): msg is one bytes object, appended as a whole.
WriteMessage(w, msg) == w \o msg

\* The callers of _send_request in SpecSend.
SendKinds == {"Read", "Publish"}

\* One call of _send_request, with what it writes: the encoder fails or not, and
\* the message takes nchunks chunks.
SendTracked(kind, encode_ok, nchunks) ==
    /\ socket # "unconnected"
    /\ Len(futures) < MaxFutures
    /\ encode_ok \/ encode_failures < MaxEncodeFailures
    /\ LET r == _send_request(kind, "None", encode_ok)
       IN  /\ _request_handle' = r.request_handle
           /\ _request_id' = r.request_id
           /\ _callbackmap' = r.callbackmap
           /\ futures' = r.futures
           /\ wire' = IF r.future # 0 /\ Written
                        THEN WriteMessage(wire,
                                 message_to_binary(r.request_id, r.request_handle, nchunks))
                        ELSE wire
           /\ encode_failures' = IF r.exc = "EncodeError" THEN encode_failures + 1
                                 ELSE encode_failures
    /\ UNCHANGED rest
    /\ UNCHANGED <<transport, socket, inbound, nreplies, ready, _publishcallbacks,
                   channel, raised>>

SendNext ==
    \/ connection_made
    \/ connection_lost
    \/ disconnect_socket
    \/ \E kind \in SendKinds, encode_ok \in BOOLEAN, nchunks \in 1..MaxChunks :
          SendTracked(kind, encode_ok, nchunks)

SpecSend == Init /\ [][SendNext]_vars

\* ---------------------------------------------------- the whole program

\* data_received(data): receive_buffer.put(data) is a call of a coroutine function
\* that nothing awaits, so the data is not queued; the first call sets
\* is_receiving and creates the task of _receive, which waits in read() for
\* receive_buffer.get().
data_received ==
    /\ transport # "None"
    /\ inbound # << >>
    /\ inbound' = Tail(inbound)
    /\ receive_buffer' = receive_buffer
    /\ is_receiving' = TRUE
    /\ UNCHANGED <<sendlog, notified, delete_call, readvars, sessionvars>>
    /\ UNCHANGED <<transport, socket, _request_id, _request_handle, _callbackmap, futures,
                   nreplies, ready, _publishcallbacks, channel, raised>>

\* The program with the receive path as it is started by data_received: the task
\* of _receive never gets a byte, so no step of it is enabled.
WholeNext ==
    \/ connection_made
    \/ connection_lost
    \/ disconnect_socket
    \/ \E kind \in ServiceKinds : send_request(kind)
    \/ send_hello
    \/ open_secure_channel
    \/ ServerSend
    \/ data_received
    \/ \E i \in 1..Len(futures) : Timeout(i)

SpecWhole == Init /\ [][WholeNext]_vars

\* ------------------------------------------------------------ the session

\* create_session(parameters): self.protocol.send_request(request) is called
\* without await, so no request is made and data is a coroutine object, which
\* struct_from_binary cannot read: the call raises before the line that stores
\* the token.  Nothing in it awaits, so it is one step.
create_session ==
    /\ socket # "unconnected"
    /\ session_call = "none"
    /\ session_call' = "DecodeError"
    /\ authentication_token' = authentication_token
    /\ UNCHANGED <<sendlog, notified, delete_call, receive_buffer, is_receiving, readvars>>
    /\ UNCHANGED <<transport, socket, _request_id, _request_handle, _callbackmap, futures,
                   inbound, nreplies, ready, _publishcallbacks, channel, raised>>

\* The session services and the requests made around them.
SessionNext ==
    \/ connection_made
    \/ connection_lost
    \/ disconnect_socket
    \/ create_session
    \/ \E kind \in ServiceKinds : send_request(kind)
    \/ publish
    \/ ServerSend
    \/ _receive
    \/ RunCallback

SpecSession == Init /\ [][SessionNext]_vars

\* ------------------------------------------------------------- read()

\* The inbound byte stream of n bytes, numbered 1..n, cut after the positions in
\* cuts: the segments data_received is called with, in order.
Segmentation(n, cuts) ==
    LET ends == cuts \cup {n}
        End(j) == CHOOSE e \in ends : Cardinality({x \in ends : x <= e}) = j
        Start(j) == IF j = 1 THEN 1 ELSE End(j - 1) + 1
    IN  [j \in 1..Cardinality(ends) |->
            [k \in 1..(End(j) - Start(j) + 1) |-> Start(j) + k - 1]]

Streams ==
    UNION { { Segmentation(n, cuts) : cuts \in SUBSET (1..(n - 1)) } : n \in 1..MaxStream }

\* Where a Python slice with bound n cuts a sequence of length len: a negative
\* bound counts from the end, and both are clipped to the sequence.
SliceAt(len, n) ==
    IF n >= 0 THEN (IF n < len THEN n ELSE len)
    ELSE (IF len + n > 0 THEN len + n ELSE 0)

\* chunk[:n] and chunk[n:].
SliceTo(chunk, n) == SubSeq(chunk, 1, SliceAt(Len(chunk), n))

SliceFrom(chunk, n) == SubSeq(chunk, SliceAt(Len(chunk), n) + 1, Len(chunk))

\* needed_length = size - len(data), with size the local that the loop counts
\* down.
needed_length(size, data) == size - Len(data)

\* One iteration of the loop of read: the chunk is the leftover if there is one,
\* else the next item of the queue.
read_iteration ==
    LET from_leftover == _leftover_chunk # << >>
        chunk == IF from_leftover THEN _leftover_chunk ELSE Head(receive_buffer)
        needed == needed_length(reading.size, reading.data)
        fits == Len(chunk) <= needed
        _chunk == IF fits THEN chunk ELSE SliceTo(chunk, needed)
    IN  [_chunk |-> _chunk,
         leftover |-> IF fits THEN << >> ELSE SliceFrom(chunk, needed),
         buffer |-> IF from_leftover THEN receive_buffer ELSE Tail(receive_buffer),
         data |-> reading.data \o _chunk,
         size |-> reading.size - Len(_chunk)]

\* read(size) is called: data = b'' and the loop is entered (size > 0).
read(size) ==
    /\ reading.pc \in {"idle", "returned"}
    /\ reading' = [pc |-> "loop", size |-> size, data |-> << >>, requested |-> size,
                   returned |-> reading.returned + Len(reading.data)]
    /\ UNCHANGED <<sendlog, notified, delete_call, receive_buffer, is_receiving,
                   _leftover_chunk, sessionvars>>
    /\ UNCHANGED <<transport, socket, _request_id, _request_handle, _callbackmap, futures,
                   inbound, nreplies, ready, _publishcallbacks, channel, raised>>

\* read goes once round its loop, when it has a leftover or receive_buffer.get()
\* has an item to give, and returns data when size is used up.
read_step ==
    /\ reading.pc = "loop"
    /\ _leftover_chunk # << >> \/ receive_buffer # << >>
    /\ LET r == read_iteration
       IN  /\ _leftover_chunk' = r.leftover
           /\ receive_buffer' = r.buffer
           /\ reading' = [reading EXCEPT !.data = r.data, !.size = r.size,
                             !.pc = IF r.size > 0 THEN "loop" ELSE "returned"]
    /\ UNCHANGED <<sendlog, notified, delete_call, is_receiving, sessionvars>>
    /\ UNCHANGED <<transport, socket, _request_id, _request_handle, _callbackmap, futures,
                   inbound, nreplies, ready, _publishcallbacks, channel, raised>>

\* read() on its own: its inputs are the sizes asked for and the segments in the
\* queue.
ReadInit ==
    /\ receive_buffer \in Streams
    /\ transport = "None"
    /\ socket = "unconnected"
    /\ _request_id = 0
    /\ _request_handle = 0
    /\ _callbackmap = EmptyMap
    /\ futures = << >>
    /\ inbound = << >>
    /\ nreplies = 0
    /\ ready = << >>
    /\ _publishcallbacks = {}
    /\ channel = 0
    /\ raised = "None"
    /\ notified = << >>
    /\ delete_call = [ids |-> {}, caller |-> "none"]
    /\ wire = << >>
    /\ encode_failures = 0
    /\ is_receiving = FALSE
    /\ _leftover_chunk = << >>
    /\ reading = NotReading
    /\ authentication_token = NullToken
    /\ session_call = "none"

ReadNext ==
    \/ \E size \in 1..MaxSize : read(size)
    \/ read_step

SpecRead == ReadInit /\ [][ReadNext]_vars

\* ---------------------------------------------------------- the claims

FutureIds == 1..Len(futures)

\* The futures made by _send_request (send_hello makes its own, under id 0).
Sent(i) == futures[i].kind # "Hello"

\* C1: a future that got a result got the body of the response to its own
\* request: the body echoes the RequestHandle of the request the future was made
\* for (an Acknowledge for a Hello), whatever the order of the answers.
C1_Correlated ==
    \A i \in FutureIds :
        futures[i].state = "FINISHED" =>
            /\ futures[i].result.handle = futures[i].handle
            /\ IF Sent(i)
                 THEN futures[i].result.typeid \in {"Response", "ServiceFault"}
                 ELSE futures[i].result.typeid = "Acknowledge"

\* C1 witness: two requests answered in the reverse order, both delivered (the
\* done-callback of the second was scheduled before that of the first).
C1_OutOfOrder ==
    /\ Len(futures) >= 2
    /\ futures[1].state = "FINISHED" /\ futures[2].state = "FINISHED"
    /\ futures[1].rid # futures[2].rid
    /\ ready = <<2, 1>>

\* C2 (as claimed): a request with a local timeout that was written is not left
\* pending for ever: once the transport is closed and nothing is left to read,
\* its future is done unless its timer is still running.
C2_CompletedOnce ==
    (socket = "closed" /\ inbound = << >>) =>
        \A i \in FutureIds :
            ( /\ futures[i].kind \in ServiceKinds \cup {"Hello", "OpenSecureChannel"}
              /\ futures[i].written
              /\ futures[i].caller # "waiting" )
            => futures[i].state # "PENDING"

\* C3: every key of _callbackmap is at most _request_id and holds the future made
\* for that id; _send_request gives the ids 1, 2, 3, ... in order, so no two
\* requests share an id and _request_id counts them.
C3_PendingIds ==
    /\ \A k \in DOMAIN _callbackmap :
          /\ 0 <= k /\ k <= _request_id
          /\ _callbackmap[k] \in FutureIds
          /\ futures[_callbackmap[k]].rid = k
    /\ \A i \in FutureIds :
          Sent(i) => futures[i].rid = Cardinality({j \in 1..i : Sent(j)})
    /\ _request_id = Cardinality({j \in FutureIds : Sent(j)})
    /\ \A i, j \in FutureIds :
          (Sent(i) /\ Sent(j) /\ i # j) => futures[i].rid # futures[j].rid

\* C3 witness: two written requests pending under the ids 1 and 2.
C3_TwoPending ==
    /\ DOMAIN _callbackmap = {1, 2}
    /\ _request_id = 2
    /\ \A k \in {1, 2} : /\ futures[_callbackmap[k]].state = "PENDING"
                         /\ futures[_callbackmap[k]].written

\* C4 (as claimed): after the local timeout of a request fired, its entry is no
\* longer in _callbackmap.
C4_TimeoutRemovesEntry ==
    \A i \in FutureIds :
        (futures[i].caller = "TimeoutError" /\ futures[i].state = "CANCELLED")
        => ~(futures[i].rid \in DOMAIN _callbackmap
             /\ _callbackmap[futures[i].rid] = i)

\* The message _receive reads next answers a request whose future the local
\* timeout cancelled.
LateResponse ==
    /\ inbound # << >>
    /\ Head(inbound).type \in {"Message", "Acknowledge"}
    /\ \E i \in FutureIds :
          /\ futures[i].rid = Head(inbound).request_id
          /\ futures[i].state = "CANCELLED"
          /\ futures[i].caller = "TimeoutError"
    /\ \A i \in FutureIds :
          futures[i].rid = Head(inbound).request_id => futures[i].state # "PENDING"

\* C5 (as claimed): a response that arrives for a request whose future was
\* cancelled is dropped silently: _receive raises nothing and no future changes.
C5_LateResponseDropped ==
    [][ (LateResponse /\ _receive) => (raised' = "None" /\ futures' = futures) ]_vars

\* C6 (as claimed): connection_lost completes every pending future and leaves
\* _callbackmap empty.
C6_DisconnectFailsPending ==
    [][ connection_lost =>
          /\ _callbackmap' = EmptyMap
          /\ \A i \in FutureIds : futures'[i].state # "PENDING" ]_vars

\* C7 (as claimed): a Message whose request_id has no entry in _callbackmap is
\* ignored: _receive raises nothing and the pending entries are unchanged.
C7_UnknownIdIgnored ==
    [][ ( /\ inbound # << >>
          /\ Head(inbound).type = "Message"
          /\ Head(inbound).request_id \notin DOMAIN _callbackmap
          /\ _receive )
        => (raised' = "None" /\ _callbackmap' = _callbackmap) ]_vars

\* C8 (as claimed): the response a server sends to a CloseSecureChannelRequest is
\* ignored: _receive raises nothing.
C8_CloseResponseIgnored ==
    [][ ( /\ inbound # << >>
          /\ Head(inbound).type = "Message"
          /\ \E i \in FutureIds : /\ futures[i].kind = "CloseSecureChannel"
                                  /\ futures[i].rid = Head(inbound).request_id
          /\ _receive )
        => raised' = "None" ]_vars

\* A Publish request is registered and pending.
PublishInFlight(map, fs) ==
    \E k \in DOMAIN map : fs[map[k]].kind = "Publish" /\ fs[map[k]].state = "PENDING"

\* C9 (as claimed): when the completion handler of a Publish has run and
\* subscriptions are registered, a Publish request is in flight again.
C9_PublishRefilled ==
    [][ ( /\ ready # << >>
          /\ futures[Head(ready)].kind = "Publish"
          /\ _publishcallbacks # {}
          /\ RunCallback )
        => PublishInFlight(_callbackmap', futures') ]_vars

\* C10 (as claimed): the completion handler of a Publish that ended with a
\* ServiceFault carrying BadTimeout sends one new Publish: one more future, of a
\* Publish, written and registered under the next id.
C10_BadTimeoutRepublishes ==
    [][ ( /\ ready # << >>
          /\ futures[Head(ready)].kind = "Publish"
          /\ futures[Head(ready)].result.typeid = "ServiceFault"
          /\ futures[Head(ready)].result.status = "BadTimeout"
          /\ Len(futures) < MaxFutures
          /\ socket = "connected"
          /\ RunCallback )
        => /\ Len(futures') = Len(futures) + 1
           /\ futures'[Len(futures')].kind = "Publish"
           /\ futures'[Len(futures')].written
           /\ _request_id' = _request_id + 1
           /\ _request_id' \in DOMAIN _callbackmap' ]_vars

\* The completion handler of future f has run: f is done and no longer scheduled.
HandlerRan(f) ==
    /\ futures[f].state = "FINISHED"
    /\ \A p \in 1..Len(ready) : ready[p] # f

\* The done-callback that runs next is that of a Publish whose result is body-like:
\* of the given type and status.
PublishHandlerNext(typeid, status) ==
    /\ ready # << >>
    /\ futures[Head(ready)].kind = "Publish"
    /\ futures[Head(ready)].result.typeid = typeid
    /\ futures[Head(ready)].result.status = status

\* C11: the completion handler of a Publish that ended with a ServiceFault
\* carrying BadNoSubscription makes no request (no future, no id, no entry),
\* invokes no subscription callback, raises nothing and leaves _publishcallbacks
\* as it was; if no Publish was in flight before it ran, none is after.
C11_NoSubscriptionIgnored ==
    [][ (PublishHandlerNext("ServiceFault", "BadNoSubscription") /\ RunCallback)
        => /\ futures' = futures
           /\ _request_id' = _request_id
           /\ _request_handle' = _request_handle
           /\ _callbackmap' = _callbackmap
           /\ notified' = notified
           /\ raised' = "None"
           /\ _publishcallbacks' = _publishcallbacks
           /\ (~PublishInFlight(_callbackmap, futures)
                 => ~PublishInFlight(_callbackmap', futures')) ]_vars

\* C11 witness: with a subscription registered, the handler of a Publish that
\* ended with BadNoSubscription has run and no Publish is in flight.
C11_LoopEnded ==
    /\ _publishcallbacks # {}
    /\ ~PublishInFlight(_callbackmap, futures)
    /\ \E i \in FutureIds :
          /\ futures[i].kind = "Publish"
          /\ futures[i].result.typeid = "ServiceFault"
          /\ futures[i].result.status = "BadNoSubscription"
          /\ HandlerRan(i)

\* C12 (as claimed): the completion handler of a Publish that ended with a
\* PublishResponse whose subscription id is registered invokes the callback of
\* that subscription, once, and that of no other.
C12_CallbackInvoked ==
    [][ ( /\ PublishHandlerNext("Response", "Good")
          /\ futures[Head(ready)].result.sid \in _publishcallbacks
          /\ RunCallback )
        => notified' = Append(notified, futures[Head(ready)].result.sid) ]_vars

\* C13 (as claimed): when a call of delete_subscriptions(ids) has ended on a
\* connection that is up, the caller has the results and no id of ids is
\* registered.
C13_DeletedUnregistered ==
    (delete_call.caller \notin {"none", "waiting"} /\ socket = "connected") =>
        /\ delete_call.caller = "returned"
        /\ delete_call.ids \cap _publishcallbacks = {}

\* C14 (as claimed): once the handler of a CreateSubscription that ended with a
\* fault or a bad service result has run, nothing was registered for it and the
\* wait of create_subscription is over: the caller is not left waiting for the
\* timeout.
C14_BadResultEndsWait ==
    \A i \in FutureIds :
        ( /\ futures[i].kind = "CreateSubscription"
          /\ HandlerRan(i)
          /\ ~ResultGood(futures[i].result) )
        => futures[i].caller # "waiting"

\* How many complete messages are on the wire before position p.
MessagesBefore(w, p) == Cardinality({q \in 1..(p - 1) : w[q].final})

\* C15: the requests that encoded carry the handles 1, 2, 3, ... in the order of
\* the calls, on the wire too, with no gap or repeat; a call that fails in the
\* encoder leaves _request_handle, _request_id and _callbackmap as they were and
\* writes nothing.
C15_HandlesGapFree ==
    [][ /\ \A i \in 1..Len(futures') : futures'[i].handle = i
        /\ \A p \in 1..Len(wire') : wire'[p].handle = MessagesBefore(wire', p) + 1
        /\ (encode_failures' # encode_failures)
              => /\ _request_handle' = _request_handle
                 /\ _request_id' = _request_id
                 /\ _callbackmap' = _callbackmap
                 /\ futures' = futures
                 /\ wire' = wire ]_vars

\* C15 witness: a call failed in the encoder and two requests are on the wire, the
\* second with handle 2.
C15_SentAroundFailure ==
    /\ encode_failures > 0
    /\ \E p \in 1..Len(wire) : wire[p].handle = 2 /\ MessagesBefore(wire, p) = 1

\* C16: the chunks of one message are next to each other on the wire, in order
\* and ended by the final one, and the messages are in the order of their request
\* ids.
C16_ChunksContiguous ==
    /\ \A p \in 1..Len(wire) :
          /\ IF wire[p].chunk = 1
               THEN p = 1 \/ (wire[p - 1].final
                              /\ wire[p - 1].request_id < wire[p].request_id)
               ELSE /\ p > 1
                    /\ ~wire[p - 1].final
                    /\ wire[p - 1].request_id = wire[p].request_id
                    /\ wire[p - 1].chunk = wire[p].chunk - 1
    /\ wire # << >> => wire[Len(wire)].final

\* C16 witness: two messages of two chunks each are on the wire.
C16_TwoChunkedMessages ==
    /\ Len(wire) >= 4
    /\ wire[1].request_id = wire[2].request_id /\ wire[2].final
    /\ wire[3].request_id = wire[4].request_id /\ wire[4].final
    /\ wire[2].request_id # wire[3].request_id

\* C17 (as claimed): a message for a pending sink that data_received is called
\* with is queued for the receive task, or dispatched at once.
C17_ReceivedIsDispatched ==
    [][ ( /\ inbound # << >>
          /\ Head(inbound).type \in {"Message", "Acknowledge"}
          /\ Head(inbound).request_id \in DOMAIN _callbackmap
          /\ futures[_callbackmap[Head(inbound).request_id]].state = "PENDING"
          /\ data_received )
        => \/ Len(receive_buffer') = Len(receive_buffer) + 1
           \/ futures'[_callbackmap[Head(inbound).request_id]].state = "FINISHED" ]_vars

\* The requests that go out as MSG (a Hello is HEL, the channel requests OPN, CLO).
MsgKind(kind) == kind \notin {"Hello", "OpenSecureChannel", "CloseSecureChannel"}

\* A good OpenSecureChannelResponse has been dispatched and its parameters are
\* not committed yet: open_secure_channel has not resumed.
OpenUncommitted ==
    \E i \in FutureIds :
        /\ futures[i].kind = "OpenSecureChannel"
        /\ futures[i].state = "FINISHED"
        /\ ResultGood(futures[i].result)
        /\ futures[i].caller = "waiting"

\* C18 (as claimed): no MSG request is written between the arrival of a good
\* OpenSecureChannelResponse and the commit of its parameters, and the channel
\* changes only to the parameters of a good response.
C18_CommittedBeforeNextMsg ==
    [][ /\ OpenUncommitted
           => ~( /\ Len(futures') = Len(futures) + 1
                 /\ MsgKind(futures'[Len(futures')].kind)
                 /\ futures'[Len(futures')].written )
        /\ channel' # channel
           => \E i \in FutureIds : /\ futures[i].kind = "OpenSecureChannel"
                                   /\ ResultGood(futures[i].result)
                                   /\ channel' = futures[i].rid ]_vars

\* C19 (as claimed): when _receive reads an ErrorMessage while send_hello waits
\* for the future registered under id 0, that future is completed: send_hello
\* does not go on waiting.
C19_ErrorFailsHello ==
    [][ ( /\ inbound # << >>
          /\ Head(inbound).type = "ErrorMessage"
          /\ 0 \in DOMAIN _callbackmap
          /\ futures[_callbackmap[0]].state = "PENDING"
          /\ futures[_callbackmap[0]].caller = "waiting"
          /\ _receive )
        => futures'[_callbackmap[0]].state # "PENDING" ]_vars

\* C20 (as claimed): a close_session whose request was answered with
\* BadSessionClosed, in the response header or in a ServiceFault, has returned
\* normally once the answer is dispatched.
C20_SessionClosedTolerated ==
    \A i \in FutureIds :
        ( /\ futures[i].kind = "CloseSession"
          /\ futures[i].state = "FINISHED"
          /\ futures[i].result.status = "BadSessionClosed" )
        => futures[i].caller \in {"waiting", "returned"}

\* A create_session call can fail because of its request: the future of a
\* CreateSession request was cancelled or got a result that is not good.
CreateSessionFailed ==
    \E i \in FutureIds :
        /\ futures[i].kind = "CreateSession"
        /\ \/ futures[i].state = "CANCELLED"
           \/ futures[i].state = "FINISHED" /\ ~ResultGood(futures[i].result)

\* C21 (as claimed): a create_session call that has ended on a connection that is
\* up has returned with the token of the response stored, unless its request
\* failed; a failed one leaves the token as it was.
C21_SessionTokenStored ==
    /\ (session_call \notin {"none", "waiting"} /\ socket = "connected")
          => \/ session_call = "returned" /\ authentication_token # NullToken
             \/ CreateSessionFailed
    /\ session_call \notin {"none", "waiting", "returned"}
          => authentication_token = NullToken

\* C23 (as claimed): once a ServiceFault or a response with a bad service result
\* is dispatched to the future of a service call, that call's caller gets the
\* service error: it is still waiting for the future or has ended with the error.
C23_ServiceErrorToCaller ==
    \A i \in FutureIds :
        ( /\ futures[i].kind \in ServiceKinds
          /\ futures[i].state = "FINISHED"
          /\ ~ResultGood(futures[i].result) )
        => futures[i].caller \in {"waiting", "ServiceError"}

RECURSIVE Flatten(_)
\* The bytes of a sequence of segments, in order.
Flatten(segments) ==
    IF segments = << >> THEN << >> ELSE Head(segments) \o Flatten(Tail(segments))

\* C22 (as claimed): a read that returned gives exactly the next `requested` bytes
\* of the stream; the leftover and the queue hold the bytes after those read, in
\* order, none lost or twice; and an iteration that has a chunk to work on takes
\* a byte of it, so read ends once the bytes are there.
C22_ReadExact ==
    /\ reading.pc = "returned"
          => reading.data = [k \in 1..reading.requested |-> reading.returned + k]
    /\ LET remaining == _leftover_chunk \o Flatten(receive_buffer)
       IN  \A k \in 1..Len(remaining) :
               remaining[k] = reading.returned + Len(reading.data) + k
    /\ (reading.pc = "loop" /\ (_leftover_chunk # << >> \/ receive_buffer # << >>))
          => Len(read_iteration._chunk) > 0
====
